---------------------------- MODULE Spec2Model ----------------------------
(***************************************************************************)
(* A model of package fmt's print.go: the literal fragment table, the      *)
(* State interface handed to custom formatters, FormatString, and the      *)
(* byte buffer with its four append methods.                               *)
(*                                                                         *)
(* Strings and byte slices are sequences of byte values (0..255); a rune   *)
(* is an integer.                                                          *)
(***************************************************************************)
EXTENDS Integers, Sequences, FiniteSets, TLC

VARIABLES
    lit,      \* the literal fragment table (const block)
    dir,      \* the directive a State was built from: flags as given, width, precision, verb
    st,       \* the options a State reports: flags, wid, widOk, prec, precOk
    pc,       \* position of the sequential caller
    result,   \* the string FormatString returned last
    bcap,     \* capacity of FormatString's slice b when it returned
    buf,      \* a buffer (also the sink behind State.Write)
    log,      \* the calls made on buf so far, in order
    ret,      \* what the last call through State returned
    cdir,     \* per goroutine: the directive its State was built from
    cst,      \* per goroutine: the options its State reports
    cpc,      \* per goroutine: position inside FormatString
    tmp,      \* the scratch slices of the FormatString calls in progress
    cres,     \* per goroutine: the string its last FormatString call returned
    ncall     \* per goroutine: FormatString calls completed

vars == <<lit, dir, st, pc, result, bcap, buf, log, ret, cdir, cst, cpc, tmp, cres, ncall>>

seqVars == <<dir, st, pc, result, bcap>>
bufVars == <<buf, log, ret>>
concVars == <<cdir, cst, cpc, tmp, cres, ncall>>

-----------------------------------------------------------------------------
(* Bounds of the model *)

\* width and precision values reach 10^MaxExp
MaxExp == 4
\* longest buffer content explored
MaxBuf == 4
\* most calls made on one buffer or through one State
MaxCalls == 3
\* FormatString calls each goroutine makes
MaxRounds == 2

-----------------------------------------------------------------------------
(* The literal fragment table *)

commaSpaceString == ", "
nilAngleString == "<nil>"
nilParenString == "(nil)"
nilString == "nil"
mapString == "map["
percentBangString == "%!"
\* a misspelt fragment, for comparison
missingStringTruncated == "(MISSING"
missingString == "(MISSING)"
badIndexString == "(BADINDEX)"
panicString == "(PANIC="
extraString == "%!(EXTRA "
badWidthString == "%!(BADWIDTH)"
badPrecString == "%!(BADPREC)"
noVerbString == "%!(NOVERB)"
invReflectString == "<invalid reflect.Value>"

Literals ==
    [ commaSpaceString |-> commaSpaceString,
      nilAngleString |-> nilAngleString,
      nilParenString |-> nilParenString,
      nilString |-> nilString,
      mapString |-> mapString,
      percentBangString |-> percentBangString,
      missingString |-> missingString,
      badIndexString |-> badIndexString,
      panicString |-> panicString,
      extraString |-> extraString,
      badWidthString |-> badWidthString,
      badPrecString |-> badPrecString,
      noVerbString |-> noVerbString,
      invReflectString |-> invReflectString ]

-----------------------------------------------------------------------------
(* Bytes, slices and the standard conversions FormatString calls *)

\* append(b, p...) on the contents of a slice
append(b, p) == b \o p

\* size of the local array tmp
\* (a smaller array, for comparison)
TmpSizeHalved == 16 \div 2
TmpSize == 16

\* '%'
Percent == 37
\* '.'
Dot == 46

\* " +-#0", the flags FormatString asks for, in the order it asks
\* (the same with '+' and '-' exchanged, for comparison)
KnownFlagsSwapped == <<32, 45, 43, 35, 48>>
KnownFlags == <<32, 43, 45, 35, 48>>

\* A slice with its capacity: append writes in place while the data fits and
\* moves to a larger array when it does not.
AppendSlice(s, p) ==
    LET n == Len(s.data) + Len(p)
    IN  [ data |-> append(s.data, p),
          cap |-> IF n <= s.cap THEN s.cap
                  ELSE IF n > 2 * s.cap THEN n ELSE 2 * s.cap ]

RECURSIVE Digits(_)
Digits(n) ==
    IF n < 10 THEN <<48 + n>>
    ELSE Digits(n \div 10) \o <<48 + (n % 10)>>

\* strconv.AppendInt(b, n, 10): the decimal text of n
\* (FormatIntPadded: the same padded to two digits, for comparison)
FormatIntPadded(n) == IF n < 0 THEN <<45>> \o Digits(0 - n)
                      ELSE IF n < 10 THEN <<48>> \o Digits(n) ELSE Digits(n)
FormatInt(n) == IF n < 0 THEN <<45>> \o Digits(0 - n) ELSE Digits(n)

\* utf8.AppendRune: the UTF-8 bytes of rune r; a surrogate or a value outside
\* 0..0x10FFFF is encoded as U+FFFD.
Enc3(r) == << 224 + (r \div 4096), 128 + ((r \div 64) % 64), 128 + (r % 64) >>

\* (EncodeRuneShort: one byte up to 0xFF, as Latin-1 would be, for comparison)
EncodeRuneShort(r) ==
    IF r >= 0 /\ r <= 255 THEN <<r>>
    ELSE IF r >= 0 /\ r <= 2047 THEN << 192 + (r \div 64), 128 + (r % 64) >>
    ELSE IF r < 0 \/ r > 1114111 \/ (r >= 55296 /\ r <= 57343) THEN Enc3(65533)
    ELSE IF r <= 65535 THEN Enc3(r)
    ELSE << 240 + (r \div 262144), 128 + ((r \div 4096) % 64),
            128 + ((r \div 64) % 64), 128 + (r % 64) >>

EncodeRune(r) ==
    IF r >= 0 /\ r <= 127 THEN <<r>>
    ELSE IF r >= 0 /\ r <= 2047 THEN << 192 + (r \div 64), 128 + (r % 64) >>
    ELSE IF r < 0 \/ r > 1114111 \/ (r >= 55296 /\ r <= 57343) THEN Enc3(65533)
    ELSE IF r <= 65535 THEN Enc3(r)
    ELSE << 240 + (r \div 262144), 128 + ((r \div 4096) % 64),
            128 + ((r \div 64) % 64), 128 + (r % 64) >>

-----------------------------------------------------------------------------
(* State: the options a custom formatter can read *)

Range(s) == { s[i] : i \in DOMAIN s }

\* The options built for one verb from the flags as given, the width and the
\* precision (each present or absent).
NewState(d) ==
    [ flags |-> Range(d.flagSeq),
      wid |-> IF d.widOk THEN d.wid ELSE 0,
      widOk |-> d.widOk,
      prec |-> IF d.precOk THEN d.prec ELSE 0,
      precOk |-> d.precOk ]

Flag(state, c) == c \in state.flags
Width(state) == <<state.wid, state.widOk>>
Precision(state) == <<state.prec, state.precOk>>

-----------------------------------------------------------------------------
(* FormatString *)

\* b := append(tmp[:0], '%')
FSStart == [ data |-> <<Percent>>, cap |-> TmpSize ]

RECURSIVE FlagLoop(_, _, _)
FlagLoop(b, state, i) ==
    IF i > Len(KnownFlags) THEN b
    ELSE FlagLoop(IF Flag(state, KnownFlags[i])
                     THEN AppendSlice(b, <<KnownFlags[i]>>) ELSE b,
                  state, i + 1)

\* for _, c := range " +-#0" { if state.Flag(int(c)) { b = append(b, byte(c)) } }
FSFlags(b, state) == FlagLoop(b, state, 1)

\* if w, ok := state.Width(); ok { b = strconv.AppendInt(b, int64(w), 10) }
\* (FSWidthAlways: the same without looking at ok, for comparison)
FSWidthAlways(b, state) == AppendSlice(b, FormatInt(Width(state)[1]))
FSWidth(b, state) ==
    IF Width(state)[2] THEN AppendSlice(b, FormatInt(Width(state)[1])) ELSE b

\* if p, ok := state.Precision(); ok { b = append(b, '.'); b = strconv.AppendInt(...) }
\* (FSPrecNoDot: the same without the '.', for comparison)
FSPrecNoDot(b, state) ==
    IF Precision(state)[2] THEN AppendSlice(b, FormatInt(Precision(state)[1])) ELSE b
FSPrec(b, state) ==
    IF Precision(state)[2]
    THEN AppendSlice(AppendSlice(b, <<Dot>>), FormatInt(Precision(state)[1]))
    ELSE b

\* b = utf8.AppendRune(b, verb)
FSVerb(b, verb) == AppendSlice(b, EncodeRune(verb))

\* the slice b at "return string(b)"
FormatStringSlice(state, verb) ==
    FSVerb(FSPrec(FSWidth(FSFlags(FSStart, state), state), state), verb)

FormatString(state, verb) == FormatStringSlice(state, verb).data

-----------------------------------------------------------------------------
(* buffer *)

write(b, p) == append(b, p)
writeString(b, s) == append(b, s)
\* (writeBytePrepend: a writeByte that puts c in front, for comparison)
writeBytePrepend(b, c) == <<c>> \o b
writeByte(b, c) == append(b, <<c>>)
writeRune(b, r) == append(b, EncodeRune(r))

-----------------------------------------------------------------------------
(* Inputs *)

FlagSet == {32, 43, 45, 35, 48}

\* the order in which a directive's flags are given when they are given
\* back to front
GivenPool == <<48, 35, 45, 43, 32>>
GivenReversed(S) == SelectSeq(GivenPool, LAMBDA c : c \in S)

\* every order in which every subset of the flags can be given
AllOrders ==
    UNION { { s \in [1..n -> FlagSet] : \A i, j \in 1..n : i # j => s[i] # s[j] }
            : n \in 0..5 }

Values == {0, 2, 5, 42} \cup { 10^k : k \in 2..MaxExp }

\* 'f', '5', '+', U+00E9, U+20AC, U+1F600, and the surrogate U+D800
Verbs == {102, 53, 43, 233, 8364, 128512, 55296}

Directives(orders, ws, ps, verbs) ==
    { [ flagSeq |-> f, wid |-> w[1], widOk |-> w[2],
        prec |-> p[1], precOk |-> p[2], verb |-> v ]
      : f \in orders,
        w \in {<<0, FALSE>>} \cup { <<x, TRUE>> : x \in ws },
        p \in {<<0, FALSE>>} \cup { <<x, TRUE>> : x \in ps },
        v \in verbs }

None == [ op |-> "none" ]
NoDir == [ flagSeq |-> <<>>, wid |-> 0, widOk |-> FALSE,
           prec |-> 0, precOk |-> FALSE, verb |-> 100 ]
Procs == {1, 2}

SeqIdle ==
    /\ dir = NoDir
    /\ st = NewState(NoDir)
    /\ pc = "idle"
    /\ result = <<>>
    /\ bcap = 0

BufIdle ==
    /\ buf = <<>>
    /\ log = <<>>
    /\ ret = None

ConcIdle ==
    /\ cdir = [ p \in Procs |-> NoDir ]
    /\ cst = [ p \in Procs |-> NewState(NoDir) ]
    /\ cpc = [ p \in Procs |-> "idle" ]
    /\ tmp = [ p \in Procs |-> [ data |-> <<>>, cap |-> 0 ] ]
    /\ cres = [ p \in Procs |-> <<>> ]
    /\ ncall = [ p \in Procs |-> 0 ]

-----------------------------------------------------------------------------
(* One FormatString call on the State built for one directive *)

InitDirs(D) ==
    /\ lit = Literals
    /\ dir \in D
    /\ st = NewState(dir)
    /\ pc = "call"
    /\ result = <<>>
    /\ bcap = 0
    /\ BufIdle
    /\ ConcIdle

FormatCall ==
    /\ pc = "call"
    /\ result' = FormatString(st, dir.verb)
    /\ bcap' = FormatStringSlice(st, dir.verb).cap
    /\ pc' = "done"
    /\ UNCHANGED <<lit, dir, st, bufVars, concVars>>

InitFormat ==
    InitDirs(Directives({ GivenReversed(S) : S \in SUBSET FlagSet }, Values, Values, Verbs))

NextFormat == FormatCall

SpecFormat == InitFormat /\ [][NextFormat]_vars

\* every order of every flag subset, with few widths, precisions and verbs
InitPerm == InitDirs(Directives(AllOrders, {5}, {2}, {100}))

SpecPerm == InitPerm /\ [][NextFormat]_vars

-----------------------------------------------------------------------------
(* The buffer under a sequence of write, writeString, writeByte, writeRune *)

\* []byte arguments of write
Slices == { <<>>, <<97>>, <<98, 99>> }
\* string arguments of writeString: "" and "%!"
Strings == { <<>>, <<37, 33>> }
\* byte arguments of writeByte
Bytes == { 32, 255 }
\* rune arguments of writeRune
BufRunes == { 102, 233, 8364, 128512, 55296 }

InitBuffer ==
    /\ lit = Literals
    /\ SeqIdle
    /\ BufIdle
    /\ ConcIdle

Room(n) == Len(log) < MaxCalls /\ Len(buf) + n <= MaxBuf

BufWrite(p) ==
    /\ Room(Len(p))
    /\ buf' = write(buf, p)
    /\ log' = Append(log, [ op |-> "write", arg |-> p ])
    /\ UNCHANGED <<lit, seqVars, ret, concVars>>

BufWriteString(s) ==
    /\ Room(Len(s))
    /\ buf' = writeString(buf, s)
    /\ log' = Append(log, [ op |-> "writeString", arg |-> s ])
    /\ UNCHANGED <<lit, seqVars, ret, concVars>>

BufWriteByte(c) ==
    /\ Room(1)
    /\ buf' = writeByte(buf, c)
    /\ log' = Append(log, [ op |-> "writeByte", arg |-> c ])
    /\ UNCHANGED <<lit, seqVars, ret, concVars>>

BufWriteRune(r) ==
    /\ Room(Len(EncodeRune(r)))
    /\ buf' = writeRune(buf, r)
    /\ log' = Append(log, [ op |-> "writeRune", arg |-> r ])
    /\ UNCHANGED <<lit, seqVars, ret, concVars>>

NextBuffer ==
    \/ \E p \in Slices : BufWrite(p)
    \/ \E s \in Strings : BufWriteString(s)
    \/ \E c \in Bytes : BufWriteByte(c)
    \/ \E r \in BufRunes : BufWriteRune(r)

SpecBuffer == InitBuffer /\ [][NextBuffer]_vars

-----------------------------------------------------------------------------
(* One rune, written to a buffer and used as the verb of FormatString *)

\* the ends of every range of utf8.AppendRune, and values that are no code point
Runes == { -1, 0, 102, 127, 128, 2047, 2048, 55295, 55296, 57343, 57344,
           65535, 65536, 1114111, 1114112 }

InitRune == InitDirs(Directives({ <<>>, <<43>> }, {5}, {2}, Runes))

RuneWrite ==
    /\ Len(log) < MaxCalls
    /\ buf' = writeRune(buf, dir.verb)
    /\ log' = Append(log, [ op |-> "writeRune", arg |-> dir.verb ])
    /\ UNCHANGED <<lit, seqVars, ret, concVars>>

NextRune == FormatCall \/ RuneWrite

SpecRune == InitRune /\ [][NextRune]_vars

-----------------------------------------------------------------------------
(* A custom formatter calling through the State it was handed *)

\* the options after a call of Write, Width, Precision or Flag: the four
\* operations only read them
\* (OptionsAfterCleared: a Write that resets the width, for comparison)
OptionsAfterCleared(state, op) ==
    IF op = "Write" THEN [ state EXCEPT !.wid = 0, !.widOk = FALSE ] ELSE state
OptionsAfter(state, op) == state

InitState ==
    /\ lit = Literals
    /\ dir \in Directives({ GivenReversed(S) : S \in SUBSET FlagSet }, {42}, {2}, {102})
    /\ st = NewState(dir)
    /\ pc = "format"
    /\ result = <<>>
    /\ bcap = 0
    /\ BufIdle
    /\ ConcIdle

\* Write(b): the bytes go to the sink; returns len(b)
StateWrite(b) ==
    /\ Room(Len(b))
    /\ buf' = write(buf, b)
    /\ log' = Append(log, [ op |-> "Write", arg |-> b ])
    /\ ret' = [ op |-> "Write", n |-> Len(b) ]
    /\ st' = OptionsAfter(st, "Write")
    /\ UNCHANGED <<lit, dir, pc, result, bcap, concVars>>

StateWidth ==
    /\ ret' = [ op |-> "Width", val |-> Width(st) ]
    /\ st' = OptionsAfter(st, "Width")
    /\ UNCHANGED <<lit, dir, pc, result, bcap, buf, log, concVars>>

StatePrecision ==
    /\ ret' = [ op |-> "Precision", val |-> Precision(st) ]
    /\ st' = OptionsAfter(st, "Precision")
    /\ UNCHANGED <<lit, dir, pc, result, bcap, buf, log, concVars>>

StateFlag(c) ==
    /\ ret' = [ op |-> "Flag", arg |-> c, val |-> Flag(st, c) ]
    /\ st' = OptionsAfter(st, "Flag")
    /\ UNCHANGED <<lit, dir, pc, result, bcap, buf, log, concVars>>

NextState ==
    \/ \E b \in { <<>>, <<97, 98>> } : StateWrite(b)
    \/ StateWidth
    \/ StatePrecision
    \/ \E c \in FlagSet \cup {120} : StateFlag(c)

SpecState == InitState /\ [][NextState]_vars

-----------------------------------------------------------------------------
(* FormatString calls of two goroutines, interleaved statement by statement *)

\* the array behind b: tmp is a local variable, one per call
\* (ScratchShared: one array for all calls, as a package-level tmp would be)
ScratchShared(p) == 1
ScratchOf(p) == p

ConcDirs == Directives({ <<45, 43>>, <<43, 45>> }, {5}, {2}, {102, 233})

InitConc ==
    /\ lit = Literals
    /\ SeqIdle
    /\ BufIdle
    /\ cdir \in [ Procs -> ConcDirs ]
    /\ cst = [ p \in Procs |-> NewState(cdir[p]) ]
    /\ cpc = [ p \in Procs |-> "idle" ]
    /\ tmp = [ p \in Procs |-> [ data |-> <<>>, cap |-> TmpSize ] ]
    /\ cres = [ p \in Procs |-> <<>> ]
    /\ ncall = [ p \in Procs |-> 0 ]

Step(p, from, to, b) ==
    /\ cpc[p] = from
    /\ tmp' = [ tmp EXCEPT ![ScratchOf(p)] = b ]
    /\ cpc' = [ cpc EXCEPT ![p] = to ]
    /\ UNCHANGED <<lit, seqVars, bufVars, cdir, cst, cres, ncall>>

CBegin(p) == ncall[p] < MaxRounds /\ Step(p, "idle", "flags", FSStart)
CFlags(p) == Step(p, "flags", "width", FSFlags(tmp[ScratchOf(p)], cst[p]))
CWidth(p) == Step(p, "width", "prec", FSWidth(tmp[ScratchOf(p)], cst[p]))
CPrec(p) == Step(p, "prec", "verb", FSPrec(tmp[ScratchOf(p)], cst[p]))
CVerb(p) == Step(p, "verb", "return", FSVerb(tmp[ScratchOf(p)], cdir[p].verb))

\* return string(b)
CReturn(p) ==
    /\ cpc[p] = "return"
    /\ cres' = [ cres EXCEPT ![p] = Append(@, tmp[ScratchOf(p)].data) ]
    /\ ncall' = [ ncall EXCEPT ![p] = @ + 1 ]
    /\ cpc' = [ cpc EXCEPT ![p] = "idle" ]
    /\ UNCHANGED <<lit, seqVars, bufVars, cdir, cst, tmp>>

NextConc ==
    \E p \in Procs :
        \/ CBegin(p)
        \/ CFlags(p)
        \/ CWidth(p)
        \/ CPrec(p)
        \/ CVerb(p)
        \/ CReturn(p)

SpecConc == InitConc /\ [][NextConc]_vars

-----------------------------------------------------------------------------
(* Reading a directive back: what the properties below compare against *)

IsDigit(c) == c >= 48 /\ c <= 57

RECURSIVE DecValue(_)
DecValue(s) ==
    IF Len(s) = 0 THEN 0
    ELSE 10 * DecValue(SubSeq(s, 1, Len(s) - 1)) + (s[Len(s)] - 48)

\* s is the decimal text of n: digits only, no leading zero, value n
IsDecimalOf(s, n) ==
    /\ Len(s) >= 1
    /\ \A i \in 1..Len(s) : IsDigit(s[i])
    /\ Len(s) > 1 => s[1] # 48
    /\ DecValue(s) = n

NumDigits(n) == CHOOSE k \in 1..9 : n < 10^k /\ (k > 1 => n >= 10^(k - 1))

\* the rune a well-formed UTF-8 sequence stands for, -1 for anything else
DecodeRune(s) ==
    IF Len(s) = 1 /\ s[1] < 128 THEN s[1]
    ELSE IF Len(s) = 2 /\ s[1] >= 194 /\ s[1] < 224 /\ s[2] \div 64 = 2
         THEN (s[1] - 192) * 64 + (s[2] - 128)
    ELSE IF Len(s) = 3 /\ s[1] >= 224 /\ s[1] < 240 /\ s[2] \div 64 = 2 /\ s[3] \div 64 = 2
         THEN (s[1] - 224) * 4096 + (s[2] - 128) * 64 + (s[3] - 128)
    ELSE IF Len(s) = 4 /\ s[1] >= 240 /\ s[1] < 245
             /\ s[2] \div 64 = 2 /\ s[3] \div 64 = 2 /\ s[4] \div 64 = 2
         THEN (s[1] - 240) * 262144 + (s[2] - 128) * 4096 + (s[3] - 128) * 64 + (s[4] - 128)
    ELSE -1

IsSurrogate(r) == r >= 55296 /\ r <= 57343
ValidRune(r) == r >= 0 /\ r <= 1114111 /\ ~IsSurrogate(r)

\* the flags in the order space, '+', '-', '#', '0'
CanonicalFlags(S) == SelectSeq(<<32, 43, 45, 35, 48>>, LAMBDA c : c \in S)

RECURSIVE FlagEnd(_, _)
FlagEnd(s, i) == IF i <= Len(s) /\ s[i] \in FlagSet THEN FlagEnd(s, i + 1) ELSE i

RECURSIVE DigitEnd(_, _)
DigitEnd(s, i) == IF i <= Len(s) /\ IsDigit(s[i]) THEN DigitEnd(s, i + 1) ELSE i

\* %[flags][width][.precision]verb: flags first, then the width digits, then
\* '.' and the precision digits, then the verb
ParseDirective(s) ==
    IF Len(s) < 2 \/ s[1] # 37 THEN [ ok |-> FALSE ]
    ELSE
    LET i == FlagEnd(s, 2)
        j == DigitEnd(s, i)
        hasDot == j <= Len(s) /\ s[j] = 46
        k == IF hasDot THEN DigitEnd(s, j + 1) ELSE j
    IN  IF k > Len(s) THEN [ ok |-> FALSE ]
        ELSE [ ok |-> TRUE,
               flags |-> { s[x] : x \in 2..(i - 1) },
               widOk |-> j > i,
               wid |-> DecValue(SubSeq(s, i, j - 1)),
               precOk |-> hasDot,
               prec |-> IF hasDot THEN DecValue(SubSeq(s, j + 1, k - 1)) ELSE 0,
               verb |-> DecodeRune(SubSeq(s, k, Len(s))) ]

\* the parse gives back exactly what the State reported and the verb
RoundTrips(state, verb, s) ==
    LET d == ParseDirective(s)
    IN  /\ d.ok
        /\ d.flags = { c \in FlagSet : Flag(state, c) }
        /\ d.widOk = Width(state)[2]
        /\ d.widOk => d.wid = Width(state)[1]
        /\ d.precOk = Precision(state)[2]
        /\ d.precOk => d.prec = Precision(state)[1]
        /\ d.verb = verb

\* the bytes of s before its last n
Front(s, n) == SubSeq(s, 1, Len(s) - n)
\* the last n bytes of s
Back(s, n) == SubSeq(s, Len(s) - n + 1, Len(s))

\* how many bytes the verb takes at the end of the result
VerbLen(r) == IF r >= 0 /\ r < 128 THEN 1
              ELSE IF r >= 0 /\ r < 2048 THEN 2
              ELSE IF r >= 65536 /\ r <= 1114111 THEN 4
              ELSE 3

-----------------------------------------------------------------------------
(* Properties of FormatString *)

\* C1: FormatString returns '%', then each set flag, then the width in decimal
\* without leading zeros if Width reports present, then '.' and the precision
\* in decimal if Precision reports present, then the verb's encoding; an absent
\* component contributes no bytes.
C1_Directive ==
    pc = "done" =>
        LET nf == Cardinality({ c \in FlagSet : Flag(st, c) })
            nw == IF Width(st)[2] THEN NumDigits(Width(st)[1]) ELSE 0
            np == IF Precision(st)[2] THEN 1 + NumDigits(Precision(st)[1]) ELSE 0
            nv == VerbLen(dir.verb)
        IN  /\ Len(result) = 1 + nf + nw + np + nv
            /\ result[1] = 37
            /\ SubSeq(result, 2, 1 + nf) = CanonicalFlags({ c \in FlagSet : Flag(st, c) })
            /\ Width(st)[2] =>
                   IsDecimalOf(SubSeq(result, 2 + nf, 1 + nf + nw), Width(st)[1])
            /\ Precision(st)[2] =>
                   /\ result[2 + nf + nw] = 46
                   /\ IsDecimalOf(SubSeq(result, 3 + nf + nw, 1 + nf + nw + np),
                                  Precision(st)[1])
            /\ DecodeRune(Back(result, nv)) = IF ValidRune(dir.verb) THEN dir.verb ELSE 65533

\* width 5, precision 2, verb 'f' gives "%5.2f"; nothing set gives '%' and the verb
C1_Witness ==
    /\ pc = "done"
    /\ dir.flagSeq = <<>> /\ dir.widOk /\ dir.wid = 5 /\ dir.precOk /\ dir.prec = 2
    /\ dir.verb = 102
    /\ result = <<37, 53, 46, 50, 102>>

\* C2: whatever order the flags of S were given in, FormatString emits them in
\* the order space, '+', '-', '#', '0', so option sets that differ only in
\* the order their flags were given in reconstruct to the same bytes.
C2_CanonicalOrder ==
    pc = "done" =>
        LET S == Range(dir.flagSeq)
        IN  /\ SubSeq(result, 2, 1 + Cardinality(S)) = CanonicalFlags(S)
            /\ \A q \in AllOrders :
                   Range(q) = S =>
                       FormatString(NewState([dir EXCEPT !.flagSeq = q]), dir.verb) = result

\* flags given as '-' then '+' with verb 'd' give "%+-d"
C2_Witness ==
    /\ pc = "done"
    /\ dir.flagSeq = <<45, 43>> /\ ~dir.widOk /\ ~dir.precOk /\ dir.verb = 100
    /\ result = <<37, 43, 45, 100>>

\* the verbs after which a directive can be read back: valid code points
\* that are not themselves a flag, a digit or '.'
PlainVerb(r) == ValidRune(r) /\ r \notin FlagSet /\ ~IsDigit(r) /\ r # 46

\* C3 as stated, already with such a verb: for every combination of flags,
\* width and precision, a width present with value 0 included, the returned
\* string parses back to the same combination.
C3_RoundTripAll ==
    pc = "done" /\ PlainVerb(dir.verb) => RoundTrips(st, dir.verb, result)

\* C3: when the width is absent or at least 1 and the verb is a valid code
\* point other than a flag, a digit or '.', the returned string parses back to
\* the same flags, width, precision and verb; a width present with value 0 is
\* written as "0" and reads back as the '0' flag with no width.
C3_RoundTrip ==
    pc = "done" /\ PlainVerb(dir.verb) =>
        /\ (Width(st)[2] => Width(st)[1] >= 1) => RoundTrips(st, dir.verb, result)
        /\ (Width(st)[2] /\ Width(st)[1] = 0) =>
               LET d == ParseDirective(result)
               IN  /\ d.ok /\ ~d.widOk
                   /\ d.flags = { c \in FlagSet : Flag(st, c) } \cup {48}
                   /\ d.precOk = Precision(st)[2]
                   /\ d.precOk => d.prec = Precision(st)[1]
                   /\ d.verb = dir.verb

C3_Witness ==
    /\ pc = "done"
    /\ dir.flagSeq = <<48, 45>> /\ dir.widOk /\ dir.wid = 42 /\ dir.precOk /\ dir.prec = 0
    /\ dir.verb = 233
    /\ RoundTrips(st, 233, result)

\* C4 as stated: with the width unset no digit comes before the verb.
C4_NoDigitAtAll ==
    pc = "done" /\ ~Width(st)[2] =>
        \A i \in 1..(Len(result) - VerbLen(dir.verb)) : ~IsDigit(result[i])

\* C4: with the width unset the flags are followed directly by '.' or by the
\* verb: the only digits before the verb are the '0' flag, when it is set, and
\* the precision digits after '.', so with the '0' flag unset and the
\* precision absent no digit comes before the verb.
C4_NoWidthDigits ==
    pc = "done" /\ ~Width(st)[2] =>
        LET nf == Cardinality({ c \in FlagSet : Flag(st, c) })
        IN  \A i \in 1..(Len(result) - VerbLen(dir.verb)) :
                IsDigit(result[i]) =>
                    \/ i <= 1 + nf /\ result[i] = 48 /\ Flag(st, 48)
                    \/ Precision(st)[2] /\ i > 2 + nf /\ result[2 + nf] = 46

C4_Witness ==
    /\ pc = "done"
    /\ ~dir.widOk /\ ~dir.precOk /\ Range(dir.flagSeq) = {43, 35}
    /\ result = <<37, 43, 35, 102>>

\* C8 as stated: with a single-byte verb the result always fits the 16 bytes
\* of tmp, so b never grows.
C8_AlwaysFits == pc = "done" /\ VerbLen(dir.verb) = 1 => bcap = 16

\* C8: b outgrows the 16 bytes of tmp exactly when the result is longer than
\* 16 bytes, which happens with a single-byte verb too (all five flags, width
\* 10000, precision 1000); with a single-byte verb and width and precision of
\* at most four digits each the result fits.
C8_FitsUpToFourDigits ==
    pc = "done" =>
        /\ bcap >= 16
        /\ bcap > 16 <=> Len(result) > 16
        /\ (VerbLen(dir.verb) = 1 /\ Width(st)[1] <= 9999 /\ Precision(st)[1] <= 9999)
               => bcap = 16

C8_Witness ==
    /\ pc = "done"
    /\ VerbLen(dir.verb) = 1
    /\ Cardinality(st.flags) = 5 /\ Width(st) = <<10000, TRUE>> /\ Precision(st) = <<1000, TRUE>>
    /\ Len(result) = 17
    /\ bcap > 16

-----------------------------------------------------------------------------
(* Properties of the State interface, the literal table and the buffer *)

\* the bytes one logged call passes to the buffer
ArgBytes(e) ==
    IF e.op = "writeByte" THEN <<e.arg>>
    ELSE IF e.op = "writeRune" THEN EncodeRune(e.arg)
    ELSE e.arg

RECURSIVE Flatten(_)
Flatten(l) ==
    IF Len(l) = 0 THEN <<>>
    ELSE Flatten(SubSeq(l, 1, Len(l) - 1)) \o ArgBytes(l[Len(l)])

\* C5: through a State a custom formatter can call Write, Width, Precision
\* and Flag and nothing else; none of them changes the options, so after any
\* sequence of calls Width, Precision and Flag still report what the options
\* were built with, and the only effect is the bytes Write appended.
C5_OptionsReadOnly ==
    /\ st = NewState(dir)
    /\ buf = Flatten(log)
    /\ ret.op \in {"none", "Write", "Width", "Precision", "Flag"}
    /\ ret.op = "Width" => ret.val = <<IF dir.widOk THEN dir.wid ELSE 0, dir.widOk>>
    /\ ret.op = "Precision" => ret.val = <<IF dir.precOk THEN dir.prec ELSE 0, dir.precOk>>
    /\ ret.op = "Flag" => ret.val = (\E i \in DOMAIN dir.flagSeq : dir.flagSeq[i] = ret.arg)

C5_Witness ==
    /\ Len(log) >= 2
    /\ buf = <<97, 98, 97, 98>>
    /\ ret.op = "Width"
    /\ ret.val = <<42, TRUE>>
    /\ Flag(st, 48)

\* C6: the literal fragments hold exactly this text in every reachable state.
C6_LiteralTable ==
    /\ lit.nilAngleString = "<nil>"
    /\ lit.nilParenString = "(nil)"
    /\ lit.nilString = "nil"
    /\ lit.mapString = "map["
    /\ lit.percentBangString = "%!"
    /\ lit.missingString = "(MISSING)"
    /\ lit.badIndexString = "(BADINDEX)"
    /\ lit.panicString = "(PANIC="
    /\ lit.extraString = "%!(EXTRA "
    /\ lit.badWidthString = "%!(BADWIDTH)"
    /\ lit.badPrecString = "%!(BADPREC)"
    /\ lit.noVerbString = "%!(NOVERB)"

C6_Witness ==
    /\ Len(log) = MaxCalls
    /\ log[1].op = "writeString"
    /\ buf # <<>>
    /\ lit.missingString = "(MISSING)"

\* C9: the buffer's content is the concatenation, in call order, of the
\* bytes passed to write, writeString, writeByte and writeRune; every call
\* keeps what was there as a prefix and adds exactly the bytes it was given
\* (none for an empty write or string, one for writeByte).
C9_AppendOnly ==
    /\ [](buf = Flatten(log))
    /\ [][ LET e == log'[Len(log')]
               n == IF e.op = "writeByte" THEN 1
                    ELSE IF e.op = "writeRune" THEN VerbLen(e.arg)
                    ELSE Len(e.arg)
           IN  /\ Len(buf') = Len(buf) + n
               /\ SubSeq(buf', 1, Len(buf)) = buf
               /\ SubSeq(buf', Len(buf) + 1, Len(buf')) = ArgBytes(e) ]_vars

C9_Witness ==
    /\ Len(log) = 3
    /\ log[1].op = "writeByte" /\ log[2] = [ op |-> "write", arg |-> <<>> ]
    /\ log[3].op = "writeRune"
    /\ buf = <<32, 195, 169>>

\* the length the claim gives for the encoding of code point r
ClaimLen(r) == IF r < 128 THEN 1 ELSE IF r < 2048 THEN 2 ELSE IF r < 65536 THEN 3 ELSE 4

\* the k-th of the equal chunks of n bytes of s
Chunk(s, k, n) == SubSeq(s, (k - 1) * n + 1, k * n)

\* C10 as stated: for every code point r up to 0x10FFFF, writeRune appends 1,
\* 2, 3 or 4 bytes by the size of r, and the appended bytes decode to r.
C10_EveryCodePoint ==
    (dir.verb >= 0 /\ dir.verb <= 1114111) =>
        /\ Len(buf) = Len(log) * ClaimLen(dir.verb)
        /\ \A k \in 1..Len(log) : DecodeRune(Chunk(buf, k, ClaimLen(dir.verb))) = dir.verb

\* C10: for every code point r up to 0x10FFFF that is not a surrogate,
\* writeRune appends 1, 2, 3 or 4 bytes by the size of r, and the appended
\* bytes decode to r; for a surrogate, and for a value that is no code point,
\* it appends the three bytes of U+FFFD.  FormatString ends its result with
\* the same bytes for the verb.
C10_RuneEncoding ==
    LET r == dir.verb
        n == IF ValidRune(r) THEN ClaimLen(r) ELSE 3
        want == IF ValidRune(r) THEN r ELSE 65533
    IN  /\ Len(buf) = Len(log) * n
        /\ \A k \in 1..Len(log) : DecodeRune(Chunk(buf, k, n)) = want
        /\ ~ValidRune(r) => \A k \in 1..Len(log) : Chunk(buf, k, n) = <<239, 191, 189>>
        /\ pc = "done" =>
               /\ Len(result) > n
               /\ DecodeRune(Back(result, n)) = want
               /\ Len(log) > 0 => Back(result, n) = Back(buf, n)

C10_Witness ==
    /\ pc = "done"
    /\ dir.verb = 128
    /\ Len(log) = 2
    /\ buf = <<194, 128, 194, 128>>
    /\ Back(result, 2) = <<194, 128>>

\* C7: FormatString depends only on what Flag, Width and Precision report and
\* on the verb: it writes nothing to the sink and leaves the options alone,
\* and every call returns the string these values determine, whatever other
\* FormatString calls run in between, so equal states and verbs give equal
\* strings.
C7_Pure ==
    /\ buf = <<>> /\ log = <<>>
    /\ \A p \in Procs : cst[p] = NewState(cdir[p])
    /\ \A p \in Procs : \A i \in 1..Len(cres[p]) :
           /\ cres[p][i] = FormatString(cst[p], cdir[p].verb)
           /\ \A q \in Procs : \A j \in 1..Len(cres[q]) :
                  ( /\ \A c \in FlagSet : Flag(cst[p], c) = Flag(cst[q], c)
                    /\ Width(cst[p]) = Width(cst[q])
                    /\ Precision(cst[p]) = Precision(cst[q])
                    /\ cdir[p].verb = cdir[q].verb )
                  => cres[p][i] = cres[q][j]

C7_Witness ==
    /\ ncall[1] = 2 /\ ncall[2] = 1
    /\ cpc[2] = "prec"
    /\ cdir[1].flagSeq = <<45, 43>> /\ cdir[2].flagSeq = <<43, 45>>
    /\ cdir[1].verb = cdir[2].verb
    /\ Width(cst[1]) = <<5, TRUE>> /\ Width(cst[2]) = <<5, TRUE>>
    /\ Precision(cst[1]) = Precision(cst[2])
    /\ cres[1][1] = cres[1][2] /\ cres[1][2] = cres[2][1]

=============================================================================
